---- MODULE Spec2Model ----
(***************************************************************************)
(* Model of examples/mutex.rs: SpinLock, CMutex, CMutexGuard, WaitEntry    *)
(* and the driver main().  One action per statement that touches shared    *)
(* state; a thread's position is pc[t].                                    *)
(*                                                                         *)
(* linked_list.rs (ListHead) is not part of the sources at hand: the wait  *)
(* list is modelled from its documented interface (new, insert_prev, next, *)
(* unlink on drop) as the sequence of linked entries, head first.          *)
(***************************************************************************)
EXTENDS Integers, Sequences, FiniteSets, TLC

\* Scaled-down driver parameters (main: thread_count = 20, workload = 1_000_000).
NThreads == 3
Workload == 1

\* Number of workers in the runs checked under fair scheduling.
LiveThreads == 2

\* threads of the recursive-locking runs
RecThreads == 2

Main == 0
Workers == 1 .. NThreads
Threads == 0 .. NThreads
LiveSet == 0 .. LiveThreads

\* "no entry" / "no thread"
None == 0 - 1

VARIABLES
    pc,         \* pc[t]: the statement thread t executes next
    kind,       \* kind[t]: "main", "worker" (the driver's closure), "looper" or "nested"
    inner,      \* SpinLock.inner (AtomicBool)
    sguard,     \* sguard[t]: thread t owns a live SpinLockGuard
    locked,     \* CMutex.locked
    wait_list,  \* CMutex.wait_list: linked WaitEntry's, by WaitEntry.thread
    data,       \* CMutex.data (the usize payload)
    guard,      \* guard[t]: thread t owns a CMutexGuard (constructed, drop not finished)
    permit,     \* permit[t]: the park token of thread t (set by unpark)
    tmp,        \* tmp[t]: the value read by `*g += 1` before it is written back
    i,          \* i[t]: the for-loop counter of the current half
    half,       \* half[t]: 1 before the sleep, 2 after it (workers)
    final,      \* the values main read after the joins
    unparks,    \* history: unpark targets issued by t's running drop
    lastWoken,  \* history: target of the latest unpark whose entry is still linked
    arrivals,   \* history: the threads with a linked entry, in the order they spliced it
    inflight,   \* threads with a second delivery of an unpark still under way
    lost        \* history: some unpark was never delivered

vars == << pc, kind, inner, sguard, locked, wait_list, data, guard, permit,
           tmp, i, half, final, unparks, lastWoken, arrivals, inflight, lost >>

----------------------------------------------------------------------------
\* ListHead (interface of linked_list.rs)

\* ListHead::new(): the empty, self-linked sentinel
new_head == << >>

\* ListHead::insert_prev(head): splice a new node right before the sentinel (tail)
insert_prev(wl, e) == Append(wl, e)

\* ListHead::next(): the first real entry after the sentinel, or none
next(wl) == IF wl = << >> THEN None ELSE Head(wl)

\* Drop of a linked node: unsplice it from wherever it sits (no-op if unlinked)
RECURSIVE unlink(_, _)
unlink(wl, e) ==
    IF wl = << >> THEN << >>
    ELSE IF Head(wl) = e THEN Tail(wl)
    ELSE << Head(wl) >> \o unlink(Tail(wl), e)

Linked(wl) == { wl[k] : k \in 1 .. Len(wl) }

----------------------------------------------------------------------------
Goto(t, l) == pc' = [pc EXCEPT ![t] = l]

\* acquire as a plain store(true): the flag is not tested
acquire_store(t) ==
    /\ inner' = TRUE
    /\ sguard' = [sguard EXCEPT ![t] = TRUE]

\* SpinLock::acquire: the compare_exchange(false, true) that succeeds
acquire(t) ==
    /\ inner = FALSE
    /\ inner' = TRUE
    /\ sguard' = [sguard EXCEPT ![t] = TRUE]

\* SpinLockGuard::drop: store(false)
release(t) ==
    /\ inner' = FALSE
    /\ sguard' = [sguard EXCEPT ![t] = FALSE]

Init ==
    /\ kind = [t \in Threads |-> IF t = Main THEN "main" ELSE "worker"]
    /\ pc = [t \in Threads |-> IF t = Main THEN "join" ELSE "for"]
    /\ inner = FALSE
    /\ sguard = [t \in Threads |-> FALSE]
    /\ locked = FALSE
    /\ wait_list = new_head
    /\ data = 0
    /\ guard = [t \in Threads |-> FALSE]
    /\ permit = [t \in Threads |-> FALSE]
    /\ tmp = [t \in Threads |-> 0]
    /\ i = [t \in Threads |-> 0]
    /\ half = [t \in Threads |-> IF t = Main THEN 0 ELSE 1]
    /\ final = << >>
    /\ unparks = [t \in Threads |-> << >>]
    /\ lastWoken = None
    /\ arrivals = << >>
    /\ inflight = {}
    /\ lost = FALSE

----------------------------------------------------------------------------
\* CMutex::lock

\* line 74: let mut sguard = self.spin_lock.acquire();
LockAcquire(t) ==
    /\ pc[t] = "L_acquire"
    /\ acquire(t)
    /\ Goto(t, "L_check")
    /\ UNCHANGED << kind, locked, wait_list, data, guard, permit, tmp, i, half,
                    final, unparks, lastWoken,
                    arrivals, inflight, lost >>

\* a re-entrant mutex: the thread that holds the guard passes the check
LockCheckReentrant(t) ==
    /\ pc[t] = "L_check"
    /\ Goto(t, IF locked /\ ~guard[t] THEN "L_insert" ELSE "L_set")
    /\ UNCHANGED << kind, inner, sguard, locked, wait_list, data, guard, permit,
                    tmp, i, half, final, unparks, lastWoken,
                    arrivals, inflight, lost >>

\* lock() that takes the fast path whatever `locked` reads
LockCheckSkip(t) ==
    /\ pc[t] = "L_check"
    /\ Goto(t, "L_set")
    /\ UNCHANGED << kind, inner, sguard, locked, wait_list, data, guard, permit,
                    tmp, i, half, final, unparks, lastWoken,
                    arrivals, inflight, lost >>

\* line 75: if self.locked.get()
LockCheck(t) ==
    /\ pc[t] = "L_check"
    /\ IF locked THEN Goto(t, "L_insert") ELSE Goto(t, "L_set")
    /\ UNCHANGED << kind, inner, sguard, locked, wait_list, data, guard, permit,
                    tmp, i, half, final, unparks, lastWoken,
                    arrivals, inflight, lost >>

\* insert_new that splices with insert_next: right after the sentinel
LockInsertNext(t) ==
    /\ pc[t] = "L_insert"
    /\ wait_list' = << t >> \o wait_list
    /\ arrivals' = Append(arrivals, t)
    /\ Goto(t, "L_while")
    /\ UNCHANGED << kind, inner, sguard, locked, data, guard, permit, tmp, i,
                    half, final, unparks, lastWoken, inflight, lost >>

\* lines 76-80: stack_pin_init!(let wait_entry = WaitEntry::insert_new(&self.wait_list))
LockInsert(t) ==
    /\ pc[t] = "L_insert"
    /\ wait_list' = insert_prev(wait_list, t)
    /\ arrivals' = Append(arrivals, t)
    /\ Goto(t, "L_while")
    /\ UNCHANGED << kind, inner, sguard, locked, data, guard, permit, tmp, i,
                    half, final, unparks, lastWoken, inflight, lost >>

\* a loop test that lets the waiter through whatever `locked` reads
LockWhileExits(t) ==
    /\ pc[t] = "L_while"
    /\ Goto(t, "L_remove")
    /\ UNCHANGED << kind, inner, sguard, locked, wait_list, data, guard, permit,
                    tmp, i, half, final, unparks, lastWoken,
                    arrivals, inflight, lost >>

\* line 82: while self.locked.get()
LockWhile(t) ==
    /\ pc[t] = "L_while"
    /\ IF locked THEN Goto(t, "L_unlock") ELSE Goto(t, "L_remove")
    /\ UNCHANGED << kind, inner, sguard, locked, wait_list, data, guard, permit,
                    tmp, i, half, final, unparks, lastWoken,
                    arrivals, inflight, lost >>

\* the park loop without line 83: the SpinLockGuard is kept across park()
LockUnlockKeeps(t) ==
    /\ pc[t] = "L_unlock"
    /\ Goto(t, "L_park")
    /\ UNCHANGED << kind, inner, sguard, locked, wait_list, data, guard, permit,
                    tmp, i, half, final, unparks, lastWoken,
                    arrivals, inflight, lost >>

\* line 83: drop(sguard);
LockUnlock(t) ==
    /\ pc[t] = "L_unlock"
    /\ release(t)
    /\ Goto(t, "L_park")
    /\ UNCHANGED << kind, locked, wait_list, data, guard, permit, tmp, i, half,
                    final, unparks, lastWoken,
                    arrivals, inflight, lost >>

\* line 84: park() returns because the token is set; it consumes the token
ParkWake(t) ==
    /\ pc[t] = "L_park"
    /\ permit[t]
    /\ permit' = [permit EXCEPT ![t] = FALSE]
    /\ Goto(t, "L_reacquire")
    /\ UNCHANGED << kind, inner, sguard, locked, wait_list, data, guard, tmp, i,
                    half, final, unparks, lastWoken,
                    arrivals, inflight, lost >>

\* line 84: park() returns spuriously (std::thread::park may do so)
ParkSpurious(t) ==
    /\ pc[t] = "L_park"
    /\ ~permit[t]
    /\ Goto(t, "L_reacquire")
    /\ UNCHANGED << kind, inner, sguard, locked, wait_list, data, guard, permit,
                    tmp, i, half, final, unparks, lastWoken,
                    arrivals, inflight, lost >>

\* a wait entry built inside the loop: every round splices a new one at the tail
LockReacquireRequeues(t) ==
    /\ pc[t] = "L_reacquire"
    /\ acquire(t)
    /\ wait_list' = insert_prev(unlink(wait_list, t), t)
    /\ arrivals' = Append(SelectSeq(arrivals, LAMBDA e : e # t), t)
    /\ lastWoken' = IF lastWoken = t THEN None ELSE lastWoken
    /\ Goto(t, "L_while")
    /\ UNCHANGED << kind, locked, data, guard, permit, tmp, i, half, final,
                    unparks, inflight, lost >>

\* `if` in place of `while`: a woken waiter does not read `locked` again
LockReacquireTrusting(t) ==
    /\ pc[t] = "L_reacquire"
    /\ acquire(t)
    /\ Goto(t, "L_remove")
    /\ UNCHANGED << kind, locked, wait_list, data, guard, permit, tmp, i, half,
                    final, unparks, lastWoken,
                    arrivals, inflight, lost >>

\* lines 85-86: sguard = self.spin_lock.acquire(); back to the loop test
LockReacquire(t) ==
    /\ pc[t] = "L_reacquire"
    /\ acquire(t)
    /\ Goto(t, "L_while")
    /\ UNCHANGED << kind, locked, wait_list, data, guard, permit, tmp, i, half,
                    final, unparks, lastWoken,
                    arrivals, inflight, lost >>

\* lock() that unlinks the first entry of the list, not its own
LockRemoveHead(t) ==
    /\ pc[t] = "L_remove"
    /\ wait_list' = Tail(wait_list)
    /\ lastWoken' = IF lastWoken = Head(wait_list) THEN None ELSE lastWoken
    /\ arrivals' = SelectSeq(arrivals, LAMBDA e : e # Head(wait_list))
    /\ Goto(t, "L_set")
    /\ UNCHANGED << kind, inner, sguard, locked, data, guard, permit, tmp, i,
                    half, final, unparks, inflight, lost >>

\* lock() that lets go of the SpinLock once it is out of the loop
LockRemoveReleases(t) ==
    /\ pc[t] = "L_remove"
    /\ wait_list' = unlink(wait_list, t)
    /\ lastWoken' = IF lastWoken = t THEN None ELSE lastWoken
    /\ arrivals' = SelectSeq(arrivals, LAMBDA e : e # t)
    /\ release(t)
    /\ Goto(t, "L_set")
    /\ UNCHANGED << kind, locked, data, guard, permit, tmp, i, half, final,
                    unparks, inflight, lost >>

\* lock() that returns with its wait entry still linked
LockRemoveKeeps(t) ==
    /\ pc[t] = "L_remove"
    /\ Goto(t, "L_set")
    /\ UNCHANGED << kind, inner, sguard, locked, wait_list, data, guard, permit,
                    tmp, i, half, final, unparks, lastWoken,
                    arrivals, inflight, lost >>

\* line 87: drop(wait_entry);
LockRemove(t) ==
    /\ pc[t] = "L_remove"
    /\ wait_list' = unlink(wait_list, t)
    /\ lastWoken' = IF lastWoken = t THEN None ELSE lastWoken
    /\ arrivals' = SelectSeq(arrivals, LAMBDA e : e # t)
    /\ Goto(t, "L_set")
    /\ UNCHANGED << kind, inner, sguard, locked, data, guard, permit, tmp, i,
                    half, final, unparks, inflight, lost >>

\* lock() whose contended path forgets line 89
LockSetFastOnly(t) ==
    /\ pc[t] = "L_set"
    /\ locked' = (locked \/ wait_list = << >>)
    /\ Goto(t, "L_ret")
    /\ UNCHANGED << kind, inner, sguard, wait_list, data, guard, permit, tmp, i,
                    half, final, unparks, lastWoken,
                    arrivals, inflight, lost >>

\* line 89: self.locked.set(true);
LockSet(t) ==
    /\ pc[t] = "L_set"
    /\ locked' = TRUE
    /\ Goto(t, "L_ret")
    /\ UNCHANGED << kind, inner, sguard, wait_list, data, guard, permit, tmp, i,
                    half, final, unparks, lastWoken,
                    arrivals, inflight, lost >>

\* lines 90-91: CMutexGuard { mtx: self }, sguard goes out of scope, return
LockReturn(t) ==
    /\ pc[t] = "L_ret"
    /\ guard' = [guard EXCEPT ![t] = TRUE]
    /\ release(t)
    /\ Goto(t, CASE kind[t] = "worker" -> "inc_read"
                 [] kind[t] = "main" -> "m_read"
                 [] kind[t] = "nested" -> "L_acquire"
                 [] OTHER -> "D_acquire")
    /\ UNCHANGED << kind, locked, wait_list, data, permit, tmp, i, half, final,
                    unparks, lastWoken,
                    arrivals, inflight, lost >>

----------------------------------------------------------------------------
\* CMutexGuard: DerefMut and Drop

\* line 160/165: `*mtx.lock() += 1` reads the payload through deref_mut ...
IncRead(t) ==
    /\ pc[t] = "inc_read"
    /\ tmp' = [tmp EXCEPT ![t] = data]
    /\ Goto(t, "inc_write")
    /\ UNCHANGED << kind, inner, sguard, locked, wait_list, data, guard, permit,
                    i, half, final, unparks, lastWoken,
                    arrivals, inflight, lost >>

\* ... and writes the sum back; the temporary guard is dropped next
IncWrite(t) ==
    /\ pc[t] = "inc_write"
    /\ data' = tmp[t] + 1
    /\ tmp' = [tmp EXCEPT ![t] = 0]
    /\ Goto(t, "D_acquire")
    /\ UNCHANGED << kind, inner, sguard, locked, wait_list, guard, permit, i,
                    half, final, unparks, lastWoken,
                    arrivals, inflight, lost >>

\* line 104: let sguard = self.mtx.spin_lock.acquire();
DropAcquire(t) ==
    /\ pc[t] = "D_acquire"
    /\ acquire(t)
    /\ Goto(t, "D_clear")
    /\ UNCHANGED << kind, locked, wait_list, data, guard, permit, tmp, i, half,
                    final, unparks, lastWoken,
                    arrivals, inflight, lost >>

\* line 105: self.mtx.locked.set(false);
DropClear(t) ==
    /\ pc[t] = "D_clear"
    /\ locked' = FALSE
    /\ Goto(t, "D_wake")
    /\ UNCHANGED << kind, inner, sguard, wait_list, data, guard, permit, tmp, i,
                    half, final, unparks, lastWoken,
                    arrivals, inflight, lost >>

\* a drop that wakes every waiter
WakeAll(wl) == wl

\* a drop that reads the sentinel's prev: the latest waiter
WakeLast(wl) == IF wl = << >> THEN << >> ELSE << wl[Len(wl)] >>

\* lines 106-107: the entry whose thread handle the drop reads
WakeTargets(wl) == IF next(wl) = None THEN << >> ELSE << next(wl) >>

\* an unpark that never reaches its target
unpark_lost(ts) == permit' = permit

\* Thread::unpark on every thread of ts: sets the park token
unpark(ts) == permit' = [u \in DOMAIN permit |-> permit[u] \/ u \in ts]

\* a drop that also unlinks the entry it wakes
DropWakeUnlinks(t) ==
    /\ pc[t] = "D_wake"
    /\ unpark(Linked(WakeTargets(wait_list)))
    /\ unparks' = [unparks EXCEPT ![t] = unparks[t] \o WakeTargets(wait_list)]
    /\ wait_list' = IF wait_list = << >> THEN wait_list ELSE Tail(wait_list)
    /\ Goto(t, "D_release")
    /\ UNCHANGED << kind, inner, sguard, locked, data, guard, tmp, i, half,
                    final, lastWoken,
                    arrivals, inflight, lost >>

\* a drop that clears `locked` and wakes nobody
DropWakeSilent(t) ==
    /\ pc[t] = "D_wake"
    /\ Goto(t, "D_release")
    /\ UNCHANGED << kind, inner, sguard, locked, wait_list, data, guard, permit,
                    tmp, i, half, final, unparks, lastWoken,
                    arrivals, inflight, lost >>

\* lines 106-109: if let Some(list_field) = wait_list.next() { thread.unpark() }
DropWake(t) ==
    /\ pc[t] = "D_wake"
    /\ unpark(Linked(WakeTargets(wait_list)))
    /\ unparks' = [unparks EXCEPT ![t] = unparks[t] \o WakeTargets(wait_list)]
    /\ lastWoken' = IF WakeTargets(wait_list) = << >> THEN lastWoken
                    ELSE WakeTargets(wait_list)[Len(WakeTargets(wait_list))]
    /\ Goto(t, "D_release")
    /\ UNCHANGED << kind, inner, sguard, locked, wait_list, data, guard, tmp, i,
                    half, final,
                    arrivals, inflight, lost >>

\* lines 110-111: drop(sguard); the guard is gone.  The caller goes on.
DropRelease(t) ==
    /\ pc[t] = "D_release"
    /\ release(t)
    /\ guard' = [guard EXCEPT ![t] = FALSE]
    /\ unparks' = [unparks EXCEPT ![t] = << >>]
    /\ Goto(t, CASE kind[t] = "worker" -> "for"
                 [] kind[t] = "main" -> IF Len(final) < 2 THEN "L_acquire" ELSE "exit"
                 [] OTHER -> "L_acquire")
    /\ UNCHANGED << kind, locked, wait_list, data, permit, tmp, i, half, final,
                    lastWoken,
                    arrivals, inflight, lost >>

\* Faulty delivery of the unpark of lines 106-109 (the Thread::unpark of std
\* neither loses nor repeats a token; these steps exist in FaultSpec only).
\* The unpark is issued and never reaches its target.
DropWakeLost(t) ==
    /\ pc[t] = "D_wake"
    /\ wait_list # << >>
    /\ lost' = TRUE
    /\ unparks' = [unparks EXCEPT ![t] = unparks[t] \o WakeTargets(wait_list)]
    /\ lastWoken' = next(wait_list)
    /\ Goto(t, "D_release")
    /\ UNCHANGED << kind, inner, sguard, locked, wait_list, data, guard, permit,
                    tmp, i, half, final, arrivals, inflight >>

\* The unpark reaches its target now and a second copy of it is under way.
DropWakeTwice(t) ==
    /\ pc[t] = "D_wake"
    /\ wait_list # << >>
    /\ unpark(Linked(WakeTargets(wait_list)))
    /\ inflight' = inflight \cup Linked(WakeTargets(wait_list))
    /\ unparks' = [unparks EXCEPT ![t] = unparks[t] \o WakeTargets(wait_list)]
    /\ lastWoken' = next(wait_list)
    /\ Goto(t, "D_release")
    /\ UNCHANGED << kind, inner, sguard, locked, wait_list, data, guard, tmp, i,
                    half, final, arrivals, lost >>

\* The second copy of an unpark reaches thread u, whatever u is doing by then.
DeliverDuplicate(u) ==
    /\ u \in inflight
    /\ inflight' = inflight \ {u}
    /\ unpark({u})
    /\ UNCHANGED << pc, kind, inner, sguard, locked, wait_list, data, guard, tmp,
                    i, half, final, unparks, lastWoken, arrivals, lost >>

----------------------------------------------------------------------------
\* main and the closure each worker runs

\* lines 159/164: for _ in 0..workload
ForNext(t) ==
    /\ pc[t] = "for"
    /\ IF i[t] < Workload
       THEN /\ i' = [i EXCEPT ![t] = i[t] + 1]
            /\ Goto(t, "L_acquire")
       ELSE /\ i' = i
            /\ Goto(t, IF half[t] = 1 THEN "sleep" ELSE "done")
    /\ UNCHANGED << kind, inner, sguard, locked, wait_list, data, guard, permit,
                    tmp, half, final, unparks, lastWoken,
                    arrivals, inflight, lost >>

\* lines 162-163: println!("{i} halfway"); sleep(..)
Sleep(t) ==
    /\ pc[t] = "sleep"
    /\ half' = [half EXCEPT ![t] = 2]
    /\ i' = [i EXCEPT ![t] = 0]
    /\ Goto(t, "for")
    /\ UNCHANGED << kind, inner, sguard, locked, wait_list, data, guard, permit,
                    tmp, final, unparks, lastWoken,
                    arrivals, inflight, lost >>

\* lines 172-174: every h.join() has returned
Join(t) ==
    /\ pc[t] = "join"
    /\ \A w \in DOMAIN pc \ {t} : pc[w] = "done"
    /\ Goto(t, "L_acquire")
    /\ UNCHANGED << kind, inner, sguard, locked, wait_list, data, guard, permit,
                    tmp, i, half, final, unparks, lastWoken,
                    arrivals, inflight, lost >>

\* lines 175-176: main reads the payload through a guard (println!, assert_eq!)
MainRead(t) ==
    /\ pc[t] = "m_read"
    /\ final' = Append(final, data)
    /\ Goto(t, "D_acquire")
    /\ UNCHANGED << kind, inner, sguard, locked, wait_list, data, guard, permit,
                    tmp, i, half, unparks, lastWoken,
                    arrivals, inflight, lost >>

----------------------------------------------------------------------------
lock(t) ==
    \/ LockAcquire(t) \/ LockCheck(t) \/ LockInsert(t) \/ LockWhile(t)
    \/ LockUnlock(t) \/ ParkWake(t) \/ LockReacquire(t) \/ LockRemove(t)
    \/ LockSet(t) \/ LockReturn(t)

drop(t) == DropAcquire(t) \/ DropClear(t) \/ DropWake(t) \/ DropRelease(t)

driver(t) == ForNext(t) \/ Sleep(t) \/ Join(t) \/ IncRead(t) \/ IncWrite(t) \/ MainRead(t)

\* everything thread t does while it is scheduled (a spurious return of park aside)
Run(t) == lock(t) \/ drop(t) \/ driver(t)

Next ==
    \E t \in DOMAIN pc :
        \/ LockAcquire(t) \/ LockCheck(t) \/ LockInsert(t) \/ LockWhile(t)
        \/ LockUnlock(t) \/ ParkWake(t) \/ ParkSpurious(t) \/ LockReacquire(t)
        \/ LockRemove(t) \/ LockSet(t) \/ LockReturn(t)
        \/ IncRead(t) \/ IncWrite(t)
        \/ DropAcquire(t) \/ DropClear(t) \/ DropWake(t) \/ DropRelease(t)
        \/ ForNext(t) \/ Sleep(t) \/ Join(t) \/ MainRead(t)

\* the driver: 1 main thread and NThreads workers, any interleaving
Spec == Init /\ [][Next]_vars

\* Callers that never stop: besides main's closure ("worker"), a thread may
\* run `loop { drop(mtx.lock()) }` ("looper").  LiveThreads threads and main.
InitLive ==
    /\ kind \in { k \in [LiveSet -> {"main", "worker", "looper"}] :
                    /\ k[Main] = "main"
                    /\ \A w \in LiveSet \ {Main} : k[w] # "main" }
    /\ pc = [t \in LiveSet |-> CASE kind[t] = "main" -> "join"
                                 [] kind[t] = "worker" -> "for"
                                 [] OTHER -> "L_acquire"]
    /\ inner = FALSE
    /\ sguard = [t \in LiveSet |-> FALSE]
    /\ locked = FALSE
    /\ wait_list = new_head
    /\ data = 0
    /\ guard = [t \in LiveSet |-> FALSE]
    /\ permit = [t \in LiveSet |-> FALSE]
    /\ tmp = [t \in LiveSet |-> 0]
    /\ i = [t \in LiveSet |-> 0]
    /\ half = [t \in LiveSet |-> IF t = Main THEN 0 ELSE 1]
    /\ final = << >>
    /\ unparks = [t \in LiveSet |-> << >>]
    /\ lastWoken = None
    /\ arrivals = << >>
    /\ inflight = {}
    /\ lost = FALSE

\* Scheduling: a thread that can take a step again and again does take one.
\* For a thread spinning on the compare_exchange this means that it gets the
\* SpinLock if the SpinLock is free again and again; a thread in park() is
\* owed a step only once its token is set (Run has no spurious return).
Fairness == \A t \in LiveSet : SF_vars(Run(t))

LiveSpec == InitLive /\ [][Next]_vars /\ Fairness

\* Recursive locking: thread 1 runs `let a = mtx.lock(); let b = mtx.lock();`
\* ("nested"), the other threads run main's closure.
RecSet == 1 .. RecThreads

InitRec ==
    /\ kind = [t \in RecSet |-> IF t = 1 THEN "nested" ELSE "worker"]
    /\ pc = [t \in RecSet |-> IF t = 1 THEN "L_acquire" ELSE "for"]
    /\ inner = FALSE
    /\ sguard = [t \in RecSet |-> FALSE]
    /\ locked = FALSE
    /\ wait_list = new_head
    /\ data = 0
    /\ guard = [t \in RecSet |-> FALSE]
    /\ permit = [t \in RecSet |-> FALSE]
    /\ tmp = [t \in RecSet |-> 0]
    /\ i = [t \in RecSet |-> 0]
    /\ half = [t \in RecSet |-> 1]
    /\ final = << >>
    /\ unparks = [t \in RecSet |-> << >>]
    /\ lastWoken = None
    /\ arrivals = << >>
    /\ inflight = {}
    /\ lost = FALSE

\* no main thread here: nobody joins, nobody reads the total
NextRec ==
    \E t \in DOMAIN pc :
        \/ LockAcquire(t) \/ LockCheck(t) \/ LockInsert(t) \/ LockWhile(t)
        \/ LockUnlock(t) \/ ParkWake(t) \/ ParkSpurious(t) \/ LockReacquire(t)
        \/ LockRemove(t) \/ LockSet(t) \/ LockReturn(t)
        \/ IncRead(t) \/ IncWrite(t)
        \/ DropAcquire(t) \/ DropClear(t) \/ DropWake(t) \/ DropRelease(t)
        \/ ForNext(t) \/ Sleep(t)

FairnessRec == \A t \in RecSet : SF_vars(Run(t))

RecSpec == InitRec /\ [][NextRec]_vars /\ FairnessRec

\* The driver's threads (main and LiveThreads workers) with an unpark that
\* may be lost or delivered twice.
InitFault == InitLive /\ \A t \in LiveSet : kind[t] # "looper"

NextFault ==
    \E t \in DOMAIN pc :
        \/ LockAcquire(t) \/ LockCheck(t) \/ LockInsert(t) \/ LockWhile(t)
        \/ LockUnlock(t) \/ ParkWake(t) \/ ParkSpurious(t) \/ LockReacquire(t)
        \/ LockRemove(t) \/ LockSet(t) \/ LockReturn(t)
        \/ IncRead(t) \/ IncWrite(t)
        \/ DropAcquire(t) \/ DropClear(t) \/ DropWake(t) \/ DropRelease(t)
        \/ ForNext(t) \/ Sleep(t) \/ Join(t) \/ MainRead(t)
        \/ DropWakeLost(t) \/ DropWakeTwice(t) \/ DeliverDuplicate(t)

FaultSpec == InitFault /\ [][NextFault]_vars /\ Fairness

----------------------------------------------------------------------------
\* Properties of the driver (Spec)

\* a guard is alive from the return of lock() until its drop has cleared `locked`
GuardAlive(t) == guard[t] /\ pc[t] \notin {"D_wake", "D_release"}

\* the statements that read or write `locked` or touch the wait list
AccessPcs == {"L_check", "L_insert", "L_while", "L_remove", "L_set", "D_clear", "D_wake"}

LockPcs == {"L_acquire", "L_check", "L_insert", "L_while", "L_unlock", "L_park",
            "L_reacquire", "L_remove", "L_set", "L_ret"}

DropPcs == {"D_acquire", "D_clear", "D_wake", "D_release"}

Total == NThreads * Workload * 2

\* C1: mutual exclusion - in every reachable state at most one CMutexGuard is
\* alive (returned by lock(), its drop has not yet cleared `locked`).
C1_MutualExclusion == Cardinality({t \in Threads : GuardAlive(t)}) <= 1

\* a guard is alive while two other threads wait for it in park()
C1_Witness ==
    \E t, u, v \in Threads :
        /\ u # v
        /\ GuardAlive(t)
        /\ pc[u] = "L_park"
        /\ pc[v] = "L_park"

\* C2: no lost updates - once every worker has finished its 2 x Workload
\* increments the payload is NThreads x 2 x Workload, and that is what main reads.
C2_NoLostUpdates ==
    /\ (\A w \in Workers : pc[w] = "done") => data = Total
    /\ \A k \in 1 .. Len(final) : final[k] = Total

\* main has read the total twice after workers contended for the mutex
C2_Witness == pc[Main] = "exit" /\ final = << Total, Total >>

\* C5: a drop wakes at most one waiter - with waiters linked it issues exactly
\* one unpark, to the thread of the first entry; with none linked it issues none.
C5_WakesFirstOnly ==
    \A t \in Threads :
        IF pc[t] = "D_release"
        THEN unparks[t] = (IF wait_list = << >> THEN << >> ELSE << wait_list[1] >>)
        ELSE unparks[t] = << >>

\* a drop has issued its unpark with two entries linked
C5_Witness ==
    \E t \in Threads :
        /\ pc[t] = "D_release"
        /\ Len(wait_list) = 2
        /\ unparks[t] = << wait_list[1] >>
        /\ permit[wait_list[1]]
        /\ ~permit[wait_list[2]]

\* C6: a drop leaves the wait list (and the payload) as they are; the list
\* changes only by a thread splicing its own entry at L_insert, or by a linked
\* thread unlinking its own entry while it holds the SpinLock and `locked` is false.
C6_DropKeepsWaitList ==
    [][ /\ \A t \in Threads :
              (pc[t] \in DropPcs /\ pc'[t] # pc[t]) =>
                  (wait_list' = wait_list /\ data' = data)
        /\ (wait_list' # wait_list) =>
              \E t \in Threads :
                  /\ pc'[t] # pc[t]
                  /\ \/ pc[t] = "L_insert" /\ wait_list' = Append(wait_list, t)
                     \/ /\ pc[t] = "L_remove"
                        /\ sguard[t]
                        /\ ~locked
                        /\ t \in Linked(wait_list)
                        /\ wait_list' = SelectSeq(wait_list, LAMBDA e : e # t) ]_vars

\* a drop has cleared `locked` and woken the first waiter, whose entry is still linked
C6_Witness ==
    \E t \in Threads :
        /\ pc[t] \in DropPcs
        /\ ~guard[t] \/ pc[t] = "D_release"
        /\ ~locked
        /\ wait_list # << >>
        /\ unparks[t] = << wait_list[1] >>

\* C7: whenever the SpinLock is free, `locked` is true exactly when one
\* CMutexGuard exists (constructed by lock(), its drop not finished).
C7_LockedIffGuard ==
    inner = FALSE => (locked <=> Cardinality({t \in Threads : guard[t]}) = 1)

\* the SpinLock is free, the mutex is held and a waiter is linked
C7_Witness ==
    /\ inner = FALSE
    /\ locked
    /\ wait_list # << >>
    /\ \E t \in Threads : guard[t] /\ pc[t] = "inc_write"

\* C8: at most one thread owns the SpinLock, and a thread about to read or
\* write `locked` or to touch the wait list owns it.
C8_SpinLockSerialises ==
    /\ Cardinality({t \in Threads : sguard[t]}) <= 1
    /\ inner <=> (\E t \in Threads : sguard[t])
    /\ \A t \in Threads : pc[t] \in AccessPcs => sguard[t]

\* one thread is inside its critical section while two others spin for the lock
C8_Witness ==
    \E t, u, v \in Threads :
        /\ u # v
        /\ pc[t] = "D_wake" /\ sguard[t]
        /\ pc[u] = "L_acquire"
        /\ pc[v] = "L_reacquire"

\* C9: a thread inside park() does not own the SpinLock.
C9_NoSpinAcrossPark ==
    \A t \in Threads : pc[t] = "L_park" => (~sguard[t] /\ (inner => \E u \in Threads \ {t} : sguard[u]))

\* a waiter is in park() while the releasing thread holds the SpinLock
C9_Witness ==
    \E t, u \in Threads :
        /\ pc[t] = "L_park" /\ ~permit[t]
        /\ pc[u] = "D_clear" /\ sguard[u]

\* C4 as stated: after a drop that found waiters linked, the next thread to
\* obtain a guard is the first waiter of that moment.
C4_NextGuardToFirstWaiter ==
    [][ \A u \in Threads :
            (guard'[u] /\ ~guard[u] /\ lastWoken # None) => u = lastWoken ]_vars

\* C4 (amended): the waiter a drop wakes is the first waiter, and it stays the
\* first entry of the wait list until it unlinks itself to take the guard.
C4_WokenWaiterStaysFirst ==
    lastWoken # None => (wait_list # << >> /\ wait_list[1] = lastWoken)

\* the first of two waiters has been woken and the mutex is free, yet a third
\* thread holds the SpinLock on the fast path of lock()
C4_Witness ==
    \E u \in Threads :
        /\ Len(wait_list) = 2
        /\ lastWoken = wait_list[1]
        /\ ~locked
        /\ pc[u] = "L_set"
        /\ u \notin Linked(wait_list)

\* number of entries of thread t linked in wl, and the place of the first one
Occ(wl, t) == Cardinality({k \in 1 .. Len(wl) : wl[k] = t})

Pos(wl, t) == CHOOSE k \in 1 .. Len(wl) : wl[k] = t /\ \A j \in 1 .. (k - 1) : wl[j] # t

\* the statements of the contended path between the splice and the unlink
WaitPcs == {"L_while", "L_unlock", "L_park", "L_reacquire", "L_remove"}

\* C12: a waiter back from park() whose re-check reads `locked == true` gets
\* no guard, leaves `locked` and the wait list as they are, keeps its entry
\* linked and goes back to park().
C12_WakeupAbsorbed ==
    [][ \A t \in Threads :
          /\ (pc[t] \in {"L_reacquire", "L_while"} /\ pc'[t] # pc[t] /\ locked') =>
                /\ pc'[t] \in {"L_while", "L_unlock"}
                /\ locked' = locked
                /\ wait_list' = wait_list
                /\ guard' = guard
                /\ t \in Linked(wait_list')
          /\ (pc[t] = "L_unlock" /\ pc'[t] # pc[t]) =>
                /\ pc'[t] = "L_park"
                /\ locked' = locked
                /\ wait_list' = wait_list
                /\ guard' = guard
                /\ t \in Linked(wait_list') ]_vars

\* the first of two waiters has been through park() and a re-check that read
\* `locked == true`, and is about to park again
C12_Witness ==
    \E t \in Threads :
        /\ pc[t] = "L_unlock"
        /\ Len(wait_list) = 2
        /\ wait_list[1] = t
        /\ locked
        /\ ~guard[t]

\* C14: the linked entries appear, from the sentinel's next onward, in the
\* order in which their threads spliced them, and the entry a drop reads is
\* the earliest-spliced entry still linked.
C14_RequestOrder ==
    /\ wait_list = arrivals
    /\ \A t \in Threads :
          (pc[t] = "D_release" /\ unparks[t] # << >>) => unparks[t] = << arrivals[1] >>

\* a drop has read the first of two entries, spliced by the higher-numbered thread
C14_Witness ==
    \E t \in Threads :
        /\ pc[t] = "D_release"
        /\ Len(arrivals) = 2
        /\ arrivals[1] > arrivals[2]
        /\ unparks[t] = << arrivals[1] >>

\* C15: a thread has exactly one linked entry while it is between the splice
\* and the unlink of the contended path of lock(), and none anywhere else; so
\* the entry a drop reads belongs to a thread that is still inside lock().
C15_NoDanglingEntry ==
    /\ \A t \in Threads : Occ(wait_list, t) = (IF pc[t] \in WaitPcs THEN 1 ELSE 0)
    /\ \A t \in Threads :
          (pc[t] = "D_wake" /\ wait_list # << >>) => pc[next(wait_list)] \in WaitPcs

\* a drop is about to read the entry of a thread that sleeps in park(), while
\* the second waiter is awake
C15_Witness ==
    \E t \in Threads :
        /\ pc[t] = "D_wake"
        /\ Len(wait_list) = 2
        /\ pc[wait_list[1]] = "L_park"
        /\ pc[wait_list[2]] = "L_reacquire"

\* C16: from the re-check that read `locked == false` to the return, a waiter
\* owns the SpinLock: it unlinks its entry and sets `locked` with no other
\* thread owning the SpinLock or standing at a statement that touches
\* `locked` or the wait list.
C16_ContendedAcquireAtomic ==
    \A t \in Threads :
        /\ pc[t] \in {"L_remove", "L_set", "L_ret"} =>
              /\ sguard[t]
              /\ inner
              /\ \A u \in Threads \ {t} : ~sguard[u] /\ pc[u] \notin AccessPcs
        /\ pc[t] \in {"L_remove", "L_set"} => ~locked
        /\ pc[t] = "L_remove" => t \in Linked(wait_list)
        /\ pc[t] = "L_ret" => (locked /\ t \notin Linked(wait_list))

\* a woken waiter is about to unlink its entry while the other waiter and a
\* third thread spin for the SpinLock
C16_Witness ==
    \E t, u, v \in Threads :
        /\ pc[t] = "L_remove"
        /\ lastWoken = t
        /\ pc[u] = "L_reacquire"
        /\ pc[v] = "L_acquire"

\* C18: when the SpinLock is free, `locked` is false and an entry is linked,
\* the thread of the first entry is awake on its way to the re-check or has
\* its park token set.
C18_NoLostWakeup ==
    (inner = FALSE /\ ~locked /\ wait_list # << >>) =>
        \/ pc[wait_list[1]] = "L_reacquire"
        \/ pc[wait_list[1]] = "L_park" /\ permit[wait_list[1]]

\* the mutex is free, the first of two waiters has its token set and has not
\* run yet, the second one sleeps
C18_Witness ==
    /\ inner = FALSE
    /\ ~locked
    /\ Len(wait_list) = 2
    /\ pc[wait_list[1]] = "L_park" /\ permit[wait_list[1]]
    /\ pc[wait_list[2]] = "L_park" /\ ~permit[wait_list[2]]

\* C19: a thread's entry is spliced once, by the step after the first check
\* read `locked == true`; while it is linked its place never moves towards the
\* tail, and a re-check that reads `locked == true` leaves the list as it is;
\* a first check that reads `locked == false` goes to the return without a
\* splice or a park.
C19_KeepsQueuePosition ==
    [][ \A t \in Threads :
          /\ Occ(wait_list', t) <= 1
          /\ (t \in Linked(wait_list) /\ t \in Linked(wait_list')) =>
                Pos(wait_list', t) <= Pos(wait_list, t)
          /\ (t \notin Linked(wait_list) /\ t \in Linked(wait_list')) =>
                (pc[t] = "L_insert" /\ pc'[t] = "L_while")
          /\ (pc[t] = "L_while" /\ locked /\ pc'[t] # pc[t]) => wait_list' = wait_list
          /\ (pc[t] = "L_check" /\ pc'[t] # pc[t]) =>
                IF locked THEN pc'[t] = "L_insert" /\ wait_list' = wait_list
                ELSE pc'[t] = "L_set" /\ wait_list' = wait_list
          /\ (pc[t] = "L_set" /\ pc'[t] # pc[t]) => pc'[t] = "L_ret"
          /\ (pc[t] = "L_ret" /\ pc'[t] # pc[t]) => (pc'[t] \notin LockPcs /\ guard'[t])
          /\ pc'[t] \in {"L_unlock", "L_park", "L_reacquire"} => t \in Linked(wait_list') ]_vars

\* the first of two waiters is at a re-check that reads `locked == true`:
\* it was linked before the second one and still is
C19_Witness ==
    \E t \in Threads :
        /\ pc[t] = "L_while"
        /\ locked
        /\ Len(wait_list) = 2
        /\ wait_list[1] = t

----------------------------------------------------------------------------
\* Properties under fair scheduling (LiveSpec)

InLock(t) == pc[t] \in LockPcs

Finite(t) == kind[t] # "looper"

\* C3 as stated: every invocation of lock() by every thread eventually returns
\* a guard, whatever the other threads do.
C3_EveryLockReturns ==
    \A t \in LiveSet : [](InLock(t) => <>guard[t])

\* C3 (amended): every invocation of lock() by a thread eventually returns a
\* guard when the other threads call lock() only finitely often.
C3_LockReturnsAmongFiniteCallers ==
    \A t \in LiveSet :
        (\A u \in LiveSet \ {t} : Finite(u)) => [](InLock(t) => <>guard[t])

\* a caller that loops forever sleeps in park() while a worker, the only
\* other caller, holds the guard
C3_Witness ==
    \E t \in LiveSet :
        /\ ~Finite(t)
        /\ \A u \in LiveSet \ {t} : Finite(u)
        /\ wait_list = << t >>
        /\ pc[t] = "L_park"
        /\ ~permit[t]
        /\ \E u \in LiveSet : guard[u] /\ kind[u] = "worker"

\* some thread is still calling lock() and every such thread sleeps in park()
\* with no token pending (main may be blocked in join)
AllParked ==
    /\ \E t \in LiveSet : pc[t] \notin {"done", "exit", "join"}
    /\ \A t \in LiveSet :
          pc[t] \notin {"done", "exit", "join"} => (pc[t] = "L_park" /\ ~permit[t])

\* C10: with every worker running main's closure (finitely many lock()/drop
\* pairs, never nested), the threads are never all parked, every worker
\* finishes and main gets through its joins and its own two lock() calls.
C10_DriverTerminates ==
    (\A t \in LiveSet : Finite(t)) =>
        /\ [](~AllParked)
        /\ <>(pc[Main] = "exit" /\ \A w \in LiveSet \ {Main} : pc[w] = "done")

\* a worker of the driver sleeps in park(), its token not set, while the
\* other one is about to release the mutex
C10_Witness ==
    /\ \A t \in LiveSet : Finite(t)
    /\ \E u, v \in LiveSet :
          /\ pc[u] = "L_park" /\ ~permit[u]
          /\ pc[v] = "D_acquire" /\ half[v] = 2 /\ i[v] = Workload

\* C17: under fair scheduling a state where `locked` is false while an entry
\* is linked does not last: it leads to a state where `locked` is true or the
\* wait list is empty.
C17_FreeWithWaitersTransient ==
    (~locked /\ wait_list # << >>) ~> (locked \/ wait_list = << >>)

\* a drop has just cleared `locked` while the only waiter sleeps in park(),
\* its token not yet set
C17_Witness ==
    \E t \in LiveSet :
        /\ pc[t] = "D_wake"
        /\ ~locked
        /\ wait_list # << >>
        /\ pc[wait_list[1]] = "L_park"
        /\ ~permit[wait_list[1]]

\* the second lock() of a thread that still holds the guard of its first one
NestedCall(t) == guard[t] /\ pc[t] \in LockPcs

\* C11: a thread that calls lock() while it holds the guard never gets out of
\* that call: `locked` stays true, the thread never reaches the unlink, the
\* store or the return, and it ends up for ever in the park loop with its
\* wait entry linked.
C11_RecursiveLockNeverReturns ==
    \A t \in RecSet :
        /\ [](NestedCall(t) =>
                [](NestedCall(t) /\ locked /\ pc[t] \notin {"L_remove", "L_set", "L_ret"}))
        /\ NestedCall(t) ~>
                [](t \in Linked(wait_list) /\
                   pc[t] \in {"L_while", "L_unlock", "L_park", "L_reacquire"})

\* the thread holding the guard sleeps in park() of its second lock(), first
\* in the wait list, with a worker queued behind it
C11_Witness ==
    \E t \in RecSet :
        /\ NestedCall(t)
        /\ pc[t] = "L_park"
        /\ ~permit[t]
        /\ Len(wait_list) = 2
        /\ wait_list[1] = t

\* at most one guard alive among the threads of the fair-scheduling runs
OneGuardAlive == Cardinality({t \in LiveSet : GuardAlive(t)}) <= 1

\* C13 as stated: with an unpark that may be lost or delivered twice, at most
\* one guard is alive and every waiter still gets out of lock().
C13_ToleratesLostAndDuplicate ==
    /\ []OneGuardAlive
    /\ \A t \in LiveSet : [](pc[t] \in LockPcs => <>guard[t])

\* C13 (amended): with an unpark that may be lost or delivered twice, at most
\* one guard is alive; and as long as no unpark is lost, delivered twice or
\* not, every waiter gets out of lock().
C13_ToleratesDuplicate ==
    /\ []OneGuardAlive
    /\ [](~lost) => \A t \in LiveSet : [](pc[t] \in LockPcs => <>guard[t])

\* a waiter has used up the first copy of an unpark on a re-check that found
\* the mutex taken again, and sleeps in park() while the second copy is still
\* under way
C13_Witness ==
    \E u, v \in LiveSet :
        /\ pc[u] = "L_park"
        /\ ~permit[u]
        /\ u \in inflight
        /\ wait_list = << u >>
        /\ GuardAlive(v)
        /\ ~lost

====
